---- MODULE Spec2Model ----
(***************************************************************************)
(* Model of the video-analysis script (analyzeYouTubeVideo): two runs of   *)
(* the script working against one remote file registry.  A step of a run   *)
(* is what JavaScript executes between two awaits: it consumes the answer  *)
(* of the call in flight and runs on until the next call is issued.        *)
(***************************************************************************)
EXTENDS Integers, Sequences, FiniteSets, TLC

VARIABLES proc, registry

vars == <<proc, registry>>

\* Bounds of the model.
MaxInitialFiles == 2
MaxPolls == 3

\* The runs of the script: one on its own, or two at the same time.
Solo == {1}
Procs == {1, 2}

\* ---------------------------------------------------------------------
\* Values
\* ---------------------------------------------------------------------
PROCESSING == "PROCESSING"
ACTIVE == "ACTIVE"
FAILED == "FAILED"
FileStates == {PROCESSING, ACTIVE, FAILED}

DesiredName == "files/ai-persuasion"
OtherName == "files/other"
FileNames == {DesiredName, OtherName}

Mp4 == "video/mp4"
MimeTypes == {Mp4, "video/quicktime"}

\* `undefined` for a variable that holds a file.
NoFile == [name |-> "undefined", state |-> "undefined", uri |-> 0, mimeType |-> "undefined"]

\* The value of a request/argument slot before the call is made.
NoRequest == [mimeType |-> "undefined", fileUri |-> 0]
NoUpload == [path |-> "undefined", mimeType |-> "undefined", displayName |-> "undefined", name |-> "undefined"]
NoResponse == [kind |-> "pending", files |-> << >>]

RemoteFile(n, s, u, m) == [name |-> n, state |-> s, uri |-> u, mimeType |-> m]

\* ---------------------------------------------------------------------
\* Pure parts of analyzeYouTubeVideo
\* ---------------------------------------------------------------------
\* listFilesResponse?.files ?? []
FilesOf(resp) == IF resp.kind = "files" THEN resp.files ELSE << >>

\* Variant: the listing is searched for the name as it was given to uploadFile.
MatchesBareName(f) == f.name = "ai-persuasion"

MatchesDesired(f) == f.name = DesiredName

\* The for loop over the listing: every match overwrites videoFile.
RECURSIVE ScanFiles(_, _, _)
ScanFiles(files, i, vf) ==
  IF i > Len(files) THEN vf
  ELSE ScanFiles(files, i + 1, IF MatchesDesired(files[i]) THEN files[i] ELSE vf)

FindExisting(files) == ScanFiles(files, 1, NoFile)

\* One "using existing file" line per match.
RECURSIVE ExistingLines(_, _)
ExistingLines(files, i) ==
  IF i > Len(files) THEN << >>
  ELSE (IF MatchesDesired(files[i]) THEN <<"using existing file">> ELSE << >>)
       \o ExistingLines(files, i + 1)

\* Variant: the upload happens whether or not a file was found.
NeedsUploadAlways(vf) == TRUE

\* if (!videoFile)
NeedsUpload(vf) == vf = NoFile

\* Variant: the upload options of the sample script the call was copied from.
UploadRequestSample ==
  [path |-> "./videos/video.mp4", mimeType |-> "video/mp4",
   displayName |-> "Jupiter's Great Red Spot", name |-> "ai-persuasion"]

\* The arguments of fileManager.uploadFile.
UploadRequest ==
  [path |-> "./videos/video.mp4", mimeType |-> Mp4,
   displayName |-> "AI Persuasion", name |-> "ai-persuasion"]

\* Variant: the loop runs until the file is active.
StillProcessingUntilActive(f) == f.state # ACTIVE

\* Variant: the loop compares with a string the service never reports.
StillProcessingMisspelt(f) == f.state = "processing"

\* while (file.state === FileState.PROCESSING)
StillProcessing(f) == f.state = PROCESSING

\* Variant: the failure test compares with a string the service never reports.
ProcessingFailedMisspelt(f) == f.state = "FAILURE"

\* if (file.state === FileState.FAILED)
ProcessingFailed(f) == f.state = FAILED

\* The fileData part of the GenerateContentRequest.
BuildRequest(vf) == [mimeType |-> vf.mimeType, fileUri |-> vf.uri]

\* ---------------------------------------------------------------------
\* State of one run
\* ---------------------------------------------------------------------
InitProc ==
  [pc |-> "start",
   listFilesResponse |-> NoResponse,
   videoFile |-> NoFile,
   file |-> NoFile,
   uploadArgs |-> NoUpload,
   getFileArg |-> "undefined",
   request |-> NoRequest,
   calls |-> << >>,
   observed |-> << >>,
   console |-> << >>,
   outcome |-> "running",
   error |-> "none"]

Count(seq, x) == Cardinality({i \in 1..Len(seq) : seq[i] = x})

Issue(s, call) == [s EXCEPT !.pc = call, !.calls = Append(@, call)]

Throw(s, e) == [s EXCEPT !.pc = "done", !.outcome = "uncaught", !.error = e]

Return(s) == [s EXCEPT !.pc = "done", !.outcome = "normal"]

Log(s, line) == [s EXCEPT !.console = Append(@, line)]

\* catch (error) { console.error("Error generating content:", error) }
Caught(s, e) == Return(Log([s EXCEPT !.error = e], "Error generating content"))

\* Variant: countTokens is not awaited, generateContent is issued with it.
LoopHeadNoAwait(s, f) ==
  LET t == [s EXCEPT !.file = f, !.observed = Append(@, f.state)] IN
  IF f.state = PROCESSING THEN [Log(t, ".") EXCEPT !.pc = "sleep"]
  ELSE IF f.state = FAILED THEN Throw(t, "Video processing failed.")
  ELSE Issue(Issue([Log(t, "ready for inference") EXCEPT
                      !.request = [mimeType |-> t.videoFile.mimeType,
                                   fileUri |-> t.videoFile.uri]],
                   "countTokens"), "generateContent")

\* Lines 56-66 and 72-185 from the head of the while loop, with `file` = f:
\* sleep for another poll, throw on a failed file, or build the request and
\* issue countTokens.
LoopHead(s, f) ==
  LET t == [s EXCEPT !.file = f, !.observed = Append(@, f.state)] IN
  IF StillProcessing(f) THEN [Log(t, ".") EXCEPT !.pc = "sleep"]
  ELSE IF ProcessingFailed(f) THEN Throw(t, "Video processing failed.")
  ELSE Issue([Log(t, "ready for inference") EXCEPT !.request = BuildRequest(t.videoFile)],
             "countTokens")

\* ---------------------------------------------------------------------
\* The remote service
\* ---------------------------------------------------------------------
RECURSIVE SeqsUpTo(_, _)
SeqsUpTo(S, n) ==
  IF n = 0 THEN {<< >>}
  ELSE LET shorter == SeqsUpTo(S, n - 1) IN
       shorter \cup {Append(q, x) : q \in {r \in shorter : Len(r) = n - 1}, x \in S}

\* The registry before the runs start: the uri of a file is its position.
InitialRegistries ==
  {[i \in 1..Len(q) |-> RemoteFile(q[i][1], q[i][2], i, q[i][3])] :
     q \in SeqsUpTo(FileNames \X FileStates \X MimeTypes, MaxInitialFiles)}

\* What listFiles can answer for a registry: the files, or for an empty
\* registry also a response without files or no response object.
ListResponses(reg) ==
  IF reg = << >>
  THEN {[kind |-> "undefined", files |-> << >>], [kind |-> "nofiles", files |-> << >>],
        [kind |-> "files", files |-> << >>]}
  ELSE {[kind |-> "files", files |-> reg]}

\* The service moves a file out of processing.
ServiceAdvance(i) ==
  /\ i \in 1..Len(registry)
  /\ registry[i].state = PROCESSING
  /\ \E st \in {ACTIVE, FAILED} : registry' = [registry EXCEPT ![i].state = st]
  /\ UNCHANGED proc

\* ---------------------------------------------------------------------
\* Steps of a run
\* ---------------------------------------------------------------------
\* Module level: the GEMINI_API_KEY check, then analyzeYouTubeVideo() up to
\* its first await.
Start(p) ==
  /\ proc[p].pc = "start"
  /\ \E hasKey \in BOOLEAN :
       proc' = [proc EXCEPT ![p] =
                  IF hasKey THEN Issue(@, "listFiles")
                  ELSE Throw(@, "Environment variable GEMINI_API_KEY is missing.")]
  /\ UNCHANGED registry

\* Variant: a file found in the listing is taken as ready, whatever its state.
ListFilesReturnTrusting(p) ==
  /\ proc[p].pc = "listFiles"
  /\ \E resp \in ListResponses(registry) :
       LET files == FilesOf(resp)
           s == [proc[p] EXCEPT !.listFilesResponse = resp,
                                !.videoFile = FindExisting(files),
                                !.console = @ \o ExistingLines(files, 1)]
       IN proc' = [proc EXCEPT ![p] =
                     IF NeedsUpload(s.videoFile)
                     THEN Issue(Log([s EXCEPT !.uploadArgs = UploadRequest],
                                    "Uploading file..."), "uploadFile")
                     ELSE Issue([Log(s, "ready for inference") EXCEPT
                                   !.file = s.videoFile,
                                   !.observed = Append(@, s.videoFile.state),
                                   !.request = BuildRequest(s.videoFile)],
                                "countTokens")]
  /\ UNCHANGED registry

\* Resumes after `await fileManager.listFiles()`: the for loop, then either
\* the upload is issued or the polling loop is entered with the file found.
ListFilesReturn(p) ==
  /\ proc[p].pc = "listFiles"
  /\ \E resp \in ListResponses(registry) :
       LET files == FilesOf(resp)
           s == [proc[p] EXCEPT !.listFilesResponse = resp,
                                !.videoFile = FindExisting(files),
                                !.console = @ \o ExistingLines(files, 1)]
       IN proc' = [proc EXCEPT ![p] =
                     IF NeedsUpload(s.videoFile)
                     THEN Issue(Log([s EXCEPT !.uploadArgs = UploadRequest],
                                    "Uploading file..."), "uploadFile")
                     ELSE LoopHead(s, s.videoFile)]
  /\ UNCHANGED registry

\* listFiles rejects: nothing catches it.
ListFilesThrow(p) ==
  /\ proc[p].pc = "listFiles"
  /\ proc' = [proc EXCEPT ![p] = Throw(@, "listFiles")]
  /\ UNCHANGED registry

\* The name the service gives a file uploaded as `name`.
ServerName(name) == IF name = "ai-persuasion" THEN DesiredName ELSE OtherName

\* Resumes after `await fileManager.uploadFile(...)`: the service has stored
\* a new file (whether or not one of that name exists) and answers with it.
UploadFileReturn(p) ==
  /\ proc[p].pc = "uploadFile"
  /\ \E st \in FileStates :
       LET a == proc[p].uploadArgs
           f == RemoteFile(ServerName(a.name), st, Len(registry) + 1, a.mimeType)
       IN /\ registry' = Append(registry, f)
          /\ proc' = [proc EXCEPT ![p] =
                        LoopHead(Log([@ EXCEPT !.videoFile = f], "Uploaded file"), f)]

\* uploadFile rejects (for instance the name is taken): nothing catches it.
UploadFileThrow(p) ==
  /\ proc[p].pc = "uploadFile"
  /\ proc' = [proc EXCEPT ![p] = Throw(@, "uploadFile")]
  /\ UNCHANGED registry

\* Variant: the timer's promise is never resolved.
SleepNeverResolves(p) ==
  /\ proc[p].pc = "sleep"
  /\ UNCHANGED vars

\* The 5 second timer fires and getFile(videoFile.name) is issued.
SleepDone(p) ==
  /\ proc[p].pc = "sleep"
  /\ proc' = [proc EXCEPT ![p] =
                Issue([@ EXCEPT !.getFileArg = proc[p].videoFile.name], "getFile")]
  /\ UNCHANGED registry

\* Resumes after `await fileManager.getFile(...)` with the file the service
\* holds under that name.  The service answers PROCESSING to fewer than
\* MaxPolls of the polls of a run.
GetFileReturn(p) ==
  /\ proc[p].pc = "getFile"
  /\ \E i \in 1..Len(registry) :
       /\ registry[i].name = proc[p].getFileArg
       /\ registry[i].state = PROCESSING => Count(proc[p].calls, "getFile") < MaxPolls
       /\ proc' = [proc EXCEPT ![p] = LoopHead(@, registry[i])]
  /\ UNCHANGED registry

\* getFile rejects: nothing catches it.
GetFileThrow(p) ==
  /\ proc[p].pc = "getFile"
  /\ proc' = [proc EXCEPT ![p] = Throw(@, "getFile")]
  /\ UNCHANGED registry

\* Resumes after `await model.countTokens(request)`; generateContent is issued.
CountTokensReturn(p) ==
  /\ proc[p].pc = "countTokens"
  /\ proc' = [proc EXCEPT ![p] = Issue(Log(@, "Token count"), "generateContent")]
  /\ UNCHANGED registry

\* Variant: countTokens is called before the try block.
CountTokensThrowOutsideTry(p) ==
  /\ proc[p].pc = "countTokens"
  /\ proc' = [proc EXCEPT ![p] = Throw(@, "countTokens")]
  /\ UNCHANGED registry

\* countTokens rejects inside the try block.
CountTokensThrow(p) ==
  /\ proc[p].pc = "countTokens"
  /\ proc' = [proc EXCEPT ![p] = Caught(@, "countTokens")]
  /\ UNCHANGED registry

\* Resumes after `await model.generateContent(request)`: functionCalls() is
\* undefined or a list of calls.
GenerateContentReturn(p) ==
  /\ proc[p].pc = "generateContent"
  /\ \E functions \in {"undefined", "calls"} :
       proc' = [proc EXCEPT ![p] =
                  IF functions = "undefined"
                  THEN Return(Log(@, "No functions called"))
                  ELSE Return(Log(@, "functions"))]
  /\ UNCHANGED registry

\* generateContent (or functionCalls) throws inside the try block.
GenerateContentThrow(p) ==
  /\ proc[p].pc = "generateContent"
  /\ proc' = [proc EXCEPT ![p] = Caught(@, "generateContent")]
  /\ UNCHANGED registry

\* One step of run p.
Step(p) ==
  \/ Start(p)
  \/ ListFilesReturn(p)
  \/ ListFilesThrow(p)
  \/ UploadFileReturn(p)
  \/ UploadFileThrow(p)
  \/ SleepDone(p)
  \/ GetFileReturn(p)
  \/ GetFileThrow(p)
  \/ CountTokensReturn(p)
  \/ CountTokensThrow(p)
  \/ GenerateContentReturn(p)
  \/ GenerateContentThrow(p)

Service == \E i \in 1..(MaxInitialFiles + Cardinality(Procs)) : ServiceAdvance(i)

Init ==
  /\ proc = [p \in Procs |-> InitProc]
  /\ registry \in InitialRegistries

\* One run of the script against the service.
Next ==
  \/ \E p \in Solo : Step(p)
  \/ Service

Spec == Init /\ [][Next]_vars

\* The same run under the scheduling the runtime gives it: a call in flight
\* is answered, a timer fires, and the service finishes processing a file.
FairSpec ==
  /\ Spec
  /\ \A p \in Solo : WF_vars(Step(p))
  /\ \A i \in 1..(MaxInitialFiles + Cardinality(Procs)) : WF_vars(ServiceAdvance(i))

\* Two runs of the script started against the same registry, which holds
\* at most one file.
RaceInit ==
  /\ Init
  /\ Len(registry) <= 1

RaceNext ==
  \/ \E p \in Procs : Step(p)
  \/ Service

RaceSpec == RaceInit /\ [][RaceNext]_vars

\* ---------------------------------------------------------------------
\* Vocabulary of the properties
\* ---------------------------------------------------------------------
Last(seq) == seq[Len(seq)]

\* How many times run p has issued `call`.
Issued(p, call) == Count(proc[p].calls, call)

\* Run p has received the listing.
Listed(p) == proc[p].listFilesResponse.kind # "pending"

\* The positions of the listing run p received that carry the desired name.
ListedMatches(p) ==
  {i \in 1..Len(proc[p].listFilesResponse.files) :
     proc[p].listFilesResponse.files[i].name = "files/ai-persuasion"}

Reused(p) == Listed(p) /\ ListedMatches(p) # {}

NotFound(p) == Listed(p) /\ ListedMatches(p) = {}

\* Every state run p has seen so far is PROCESSING.
OnlyProcessingSeen(p) ==
  /\ proc[p].observed # << >>
  /\ \A i \in 1..Len(proc[p].observed) : proc[p].observed[i] = "PROCESSING"

\* ---------------------------------------------------------------------
\* C1
\* ---------------------------------------------------------------------
\* C1: when the listing a run received has an entry named
\* "files/ai-persuasion", the run issues no uploadFile call, its video file
\* is an entry of that listing with that name (the last one), every getFile
\* is issued for that entry's name, and the request submitted to countTokens
\* and generateContent carries that entry's uri and MIME type.
C1_ReuseListedFile ==
  \A p \in Procs :
    Reused(p) =>
      /\ Issued(p, "uploadFile") = 0
      /\ proc[p].uploadArgs = NoUpload
      /\ \E i \in ListedMatches(p) :
           /\ proc[p].videoFile = proc[p].listFilesResponse.files[i]
           /\ \A j \in ListedMatches(p) : j <= i
      /\ Issued(p, "getFile") > 0 => proc[p].getFileArg = proc[p].videoFile.name
      /\ Issued(p, "countTokens") > 0 =>
           /\ proc[p].request.fileUri = proc[p].videoFile.uri
           /\ proc[p].request.mimeType = proc[p].videoFile.mimeType

\* A run that found two entries of the name, polled, and submitted the
\* generation request.
C1_Witness ==
  \E p \in Procs :
    /\ Cardinality(ListedMatches(p)) = 2
    /\ Issued(p, "getFile") > 0
    /\ Issued(p, "generateContent") = 1
    /\ proc[p].videoFile.uri = 2

\* ---------------------------------------------------------------------
\* C2
\* ---------------------------------------------------------------------
\* C2: when the listing a run received has no entry of the desired name
\* (an empty or absent file list included), the run issues exactly one
\* uploadFile call, with MIME type "video/mp4" and display name
\* "AI Persuasion", right after listFiles and before any getFile,
\* countTokens or generateContent.
C2_UploadOnceWhenAbsent ==
  \A p \in Procs :
    NotFound(p) =>
      /\ Issued(p, "uploadFile") = 1
      /\ Len(proc[p].calls) >= 2
      /\ proc[p].calls[1] = "listFiles"
      /\ proc[p].calls[2] = "uploadFile"
      /\ proc[p].uploadArgs.mimeType = "video/mp4"
      /\ proc[p].uploadArgs.displayName = "AI Persuasion"

\* A run whose listing carried no file list uploaded, polled and generated.
C2_Witness ==
  \E p \in Procs :
    /\ proc[p].listFilesResponse.kind = "nofiles"
    /\ Issued(p, "uploadFile") = 1
    /\ Issued(p, "getFile") > 0
    /\ Issued(p, "generateContent") = 1

\* ---------------------------------------------------------------------
\* C3
\* ---------------------------------------------------------------------
\* C3: the polling loop issues one getFile per iteration and does not end
\* while the last reported state is PROCESSING: the getFile calls issued
\* equal the PROCESSING observations (the resolved file's state, then each
\* getFile answer), less the one whose poll is still waiting on the timer;
\* every observation but the last is PROCESSING; and a file resolved as
\* ACTIVE gets no getFile at all.
C3_OneFetchPerProcessing ==
  \A p \in Procs :
    LET obs == proc[p].observed
        seen == Count(obs, "PROCESSING")
    IN /\ \A i \in 1..(Len(obs) - 1) : obs[i] = "PROCESSING"
       /\ Count(proc[p].console, ".") = seen
       /\ Issued(p, "getFile") = IF proc[p].pc = "sleep" THEN seen - 1 ELSE seen
       /\ (obs # << >> /\ Last(obs) = "PROCESSING") =>
            \/ proc[p].pc \in {"sleep", "getFile"}
            \/ proc[p].pc = "done" /\ proc[p].error = "getFile"
       /\ (obs # << >> /\ obs[1] = "ACTIVE") => Issued(p, "getFile") = 0

\* Three PROCESSING observations, then ACTIVE: three getFile calls.
C3_Witness ==
  \E p \in Procs :
    /\ proc[p].observed = <<"PROCESSING", "PROCESSING", "PROCESSING", "ACTIVE">>
    /\ Issued(p, "getFile") = 3
    /\ Issued(p, "countTokens") = 1

\* ---------------------------------------------------------------------
\* C4
\* ---------------------------------------------------------------------
\* C4: once a getFile answer reports FAILED the run has ended with the
\* error "Video processing failed.", that getFile is its last one, and it
\* has issued neither countTokens nor generateContent; answers PROCESSING
\* then FAILED end the run after exactly 2 getFile calls.
C4_FailedStopsRun ==
  \A p \in Procs :
    LET obs == proc[p].observed IN
    (Len(obs) >= 2 /\ Last(obs) = "FAILED") =>
      /\ proc[p].pc = "done"
      /\ proc[p].outcome = "uncaught"
      /\ proc[p].error = "Video processing failed."
      /\ Last(proc[p].calls) = "getFile"
      /\ Issued(p, "getFile") = Len(obs) - 1
      /\ Issued(p, "countTokens") = 0
      /\ Issued(p, "generateContent") = 0

\* A processing file answered PROCESSING, then FAILED.
C4_Witness ==
  \E p \in Procs :
    /\ proc[p].observed = <<"PROCESSING", "PROCESSING", "FAILED">>
    /\ Issued(p, "getFile") = 2
    /\ proc[p].error = "Video processing failed."

\* ---------------------------------------------------------------------
\* C5
\* ---------------------------------------------------------------------
\* C5: whenever a run has submitted countTokens or generateContent, the
\* request references the run's video file, and the last state the run saw
\* for a file of that name (from the listing, the upload answer or the
\* latest getFile) is ACTIVE, whether the file was uploaded or reused.
C5_SubmittedFileIsActive ==
  \A p \in Procs :
    (Issued(p, "countTokens") > 0 \/ Issued(p, "generateContent") > 0) =>
      /\ proc[p].request.fileUri = proc[p].videoFile.uri
      /\ proc[p].file.name = proc[p].videoFile.name
      /\ proc[p].file.state = "ACTIVE"
      /\ Last(proc[p].observed) = "ACTIVE"

\* A reused file that the listing reported as PROCESSING reaches generation.
C5_Witness ==
  \E p \in Procs :
    /\ Reused(p)
    /\ proc[p].videoFile.state = "PROCESSING"
    /\ Issued(p, "generateContent") = 1

\* ---------------------------------------------------------------------
\* C6
\* ---------------------------------------------------------------------
\* The place of a call in the workflow.
Rank(call) ==
  CASE call = "listFiles" -> 1
    [] call = "uploadFile" -> 2
    [] call = "getFile" -> 3
    [] call = "countTokens" -> 4
    [] call = "generateContent" -> 5

\* C6: a run issues its calls in the order listFiles, at most one
\* uploadFile, any number of getFile, countTokens, generateContent, each of
\* the others at most once; at most one call is in flight and it is the
\* last one issued; countTokens is issued only after the polling loop has
\* ended, and generateContent only after countTokens has returned.
C6_StrictCallOrder ==
  \A p \in Procs :
    LET cs == proc[p].calls IN
    /\ cs # << >> => cs[1] = "listFiles"
    /\ \A i \in 1..(Len(cs) - 1) :
         \/ Rank(cs[i]) < Rank(cs[i + 1])
         \/ cs[i] = "getFile" /\ cs[i + 1] = "getFile"
    /\ proc[p].pc \notin {"start", "sleep", "done"} => Last(cs) = proc[p].pc
    /\ Issued(p, "countTokens") > 0 =>
         /\ Last(proc[p].observed) # "PROCESSING"
         /\ Count(proc[p].console, "ready for inference") = 1
    /\ Issued(p, "generateContent") > 0 =>
         /\ Len(cs) >= 2
         /\ cs[Len(cs) - 1] = "countTokens"
         /\ Count(proc[p].console, "Token count") = 1

\* A run that made every kind of call and ended normally.
C6_Witness ==
  \E p \in Procs :
    /\ proc[p].calls = <<"listFiles", "uploadFile", "getFile", "getFile",
                         "countTokens", "generateContent">>
    /\ proc[p].outcome = "normal"
    /\ Last(proc[p].console) = "functions"

\* ---------------------------------------------------------------------
\* C7
\* ---------------------------------------------------------------------
\* C7: an error of countTokens or generateContent is logged and the run
\* ends normally; an error of listFiles, uploadFile or getFile, or a FAILED
\* file, ends the run with an uncaught error and nothing is logged for it;
\* after an error of countTokens no generateContent is issued.
C7_OnlyGenerationErrorsCaught ==
  \A p \in Procs :
    /\ proc[p].error \in {"countTokens", "generateContent"} =>
         /\ proc[p].pc = "done"
         /\ proc[p].outcome = "normal"
         /\ Last(proc[p].console) = "Error generating content"
    /\ proc[p].error \in {"listFiles", "uploadFile", "getFile",
                          "Video processing failed."} =>
         /\ proc[p].pc = "done"
         /\ proc[p].outcome = "uncaught"
         /\ Count(proc[p].console, "Error generating content") = 0
    /\ proc[p].error = "countTokens" => Issued(p, "generateContent") = 0
    /\ (proc[p].pc = "done" /\ proc[p].error = "none") => proc[p].outcome = "normal"

\* countTokens failed after polling: logged, normal exit.
C7_Witness ==
  \E p \in Procs :
    /\ proc[p].error = "countTokens"
    /\ proc[p].outcome = "normal"
    /\ Issued(p, "getFile") > 0

\* ---------------------------------------------------------------------
\* C8
\* ---------------------------------------------------------------------
\* C8 as stated: a reused file skips the state machine whatever state the
\* listing reported: no getFile is issued and no processing-failed error is
\* raised for it.
C8_Original ==
  \A p \in Procs :
    Reused(p) =>
      /\ Issued(p, "getFile") = 0
      /\ proc[p].error # "Video processing failed."

\* C8 amended: a reused file skips only the upload and goes through the
\* same state machine as an uploaded one, starting from the state the
\* listing reported: it is polled if and only if that state is PROCESSING,
\* and the processing-failed error is raised exactly when the last state
\* seen for it is FAILED.
C8_ReuseRunsStateMachine ==
  \A p \in Procs :
    Reused(p) =>
      LET obs == proc[p].observed IN
      /\ Issued(p, "uploadFile") = 0
      /\ obs # << >>
      /\ obs[1] = proc[p].videoFile.state
      /\ obs[1] = "PROCESSING" => (Issued(p, "getFile") > 0 \/ proc[p].pc = "sleep")
      /\ obs[1] # "PROCESSING" => Issued(p, "getFile") = 0
      /\ proc[p].error = "Video processing failed." <=> Last(obs) = "FAILED"
      /\ Issued(p, "countTokens") > 0 => Last(obs) = "ACTIVE"

\* A reused file listed as PROCESSING is polled and then fails.
C8_Witness ==
  \E p \in Procs :
    /\ Reused(p)
    /\ proc[p].videoFile.state = "PROCESSING"
    /\ Issued(p, "getFile") = 1
    /\ proc[p].error = "Video processing failed."

\* ---------------------------------------------------------------------
\* C9
\* ---------------------------------------------------------------------
\* C9: while every state the service has reported is PROCESSING the run
\* keeps polling (or dies of a getFile error) and issues neither
\* countTokens nor generateContent, however many polls it has made; and if
\* calls are answered and the service finishes processing, the run ends.
C9_PollsUntilStateChanges ==
  /\ [](\A p \in Solo :
          OnlyProcessingSeen(p) =>
            /\ Issued(p, "countTokens") = 0
            /\ Issued(p, "generateContent") = 0
            /\ \/ proc[p].pc \in {"sleep", "getFile"}
               \/ proc[p].pc = "done" /\ proc[p].error = "getFile")
  /\ \A p \in Solo : <>(proc[p].pc = "done")

\* As many polls as the model allows, all answered PROCESSING, and the
\* run is still polling.
C9_Witness ==
  \E p \in Solo :
    /\ OnlyProcessingSeen(p)
    /\ Len(proc[p].observed) = MaxPolls
    /\ Issued(p, "getFile") = MaxPolls
    /\ proc[p].pc = "getFile"

\* ---------------------------------------------------------------------
\* C10
\* ---------------------------------------------------------------------
\* C10: with two runs against one registry, a run issues at most one
\* uploadFile, and only after a listing that showed no file of the desired
\* name; nothing else ties the upload to the registry, so each file of that
\* name a run was answered with by uploadFile is in the registry, apart
\* from the file the other run uploaded.
C10_UploadFollowsOwnListing ==
  \A p \in Procs :
    /\ Issued(p, "uploadFile") <= 1
    /\ Issued(p, "uploadFile") = 1 => NotFound(p)
    /\ (Issued(p, "uploadFile") = 1 /\ proc[p].videoFile # NoFile) =>
         /\ proc[p].videoFile.uri \in 1..Len(registry)
         /\ registry[proc[p].videoFile.uri].name = "files/ai-persuasion"
         /\ \A q \in Procs \ {p} :
              Issued(q, "uploadFile") = 1 => proc[q].videoFile.uri # proc[p].videoFile.uri

\* Both runs listed before either uploaded, both uploaded, and the registry
\* that had no file of the name now holds two.
C10_Witness ==
  /\ \A p \in Procs : NotFound(p) /\ Issued(p, "uploadFile") = 1 /\ proc[p].videoFile # NoFile
  /\ proc[1].videoFile.uri # proc[2].videoFile.uri
  /\ Cardinality({i \in 1..Len(registry) : registry[i].name = "files/ai-persuasion"}) = 2
====
